---- MODULE Spec2Model ----
(***************************************************************************)
(* A model of digest.py: the glob compiler (fnmatch.translate + re.search), *)
(* the file filter should_process_file, the tree renderer                  *)
(* generate_tree_display and the traversal ingest_repo.                    *)
(*                                                                         *)
(* A string is a sequence of one-character strings, so that splitting,     *)
(* ordering, lower-casing and matching are computed character by           *)
(* character as Python computes them.                                      *)
(***************************************************************************)
EXTENDS Integers, Sequences, FiniteSets, TLC

\* ------------------------------------------------------------------------
\* Strings
\* ------------------------------------------------------------------------

\* os.sep on the POSIX build.
sep == "/"

\* The code point of a character (Python compares strings by code point).
Ord(c) ==
  CASE c = "*" -> 42
    [] c = "." -> 46
    [] c = "/" -> 47
    [] c = "?" -> 63
    [] c = "A" -> 65
    [] c = "B" -> 66
    [] c = "O" -> 79
    [] c = "a" -> 97
    [] c = "b" -> 98
    [] c = "d" -> 100
    [] c = "o" -> 111
    [] c = "t" -> 116
    [] c = "u" -> 117
    [] OTHER   -> 120

\* str.lower() on one character.
LowerChar(c) ==
  CASE c = "A" -> "a"
    [] c = "B" -> "b"
    [] c = "O" -> "o"
    [] OTHER   -> c

\* str.lower()
lower(s) == [i \in DOMAIN s |-> LowerChar(s[i])]

RECURSIVE StrLess(_, _)
\* s < t for Python strings: lexicographic by code point, a proper prefix first.
StrLess(s, t) ==
  IF t = <<>> THEN FALSE
  ELSE IF s = <<>> THEN TRUE
  ELSE IF Ord(Head(s)) # Ord(Head(t)) THEN Ord(Head(s)) < Ord(Head(t))
  ELSE StrLess(Tail(s), Tail(t))

RECURSIVE split(_, _)
\* str.split(c): the pieces of s between occurrences of c (never empty).
split(s, c) ==
  IF \A i \in DOMAIN s : s[i] # c THEN <<s>>
  ELSE LET k == CHOOSE i \in DOMAIN s : s[i] = c /\ \A j \in 1..(i - 1) : s[j] # c
       IN  <<SubSeq(s, 1, k - 1)>> \o split(SubSeq(s, k + 1, Len(s)), c)

RECURSIVE join(_, _)
\* c.join(parts), and os.path.join / os.path.relpath of a chain of names.
join(parts, c) ==
  IF parts = <<>> THEN <<>>
  ELSE IF Len(parts) = 1 THEN parts[1]
  ELSE parts[1] \o <<c>> \o join(Tail(parts), c)

\* The elements of a sequence.
Range(q) == {q[i] : i \in DOMAIN q}

\* os.path.splitext(p)[1]: from the last dot of the last path component,
\* unless that dot belongs to the component's leading dots.
splitext_ext(p) ==
  LET seps   == {i \in DOMAIN p : p[i] = sep}
      sepIdx == IF seps = {} THEN 0 ELSE CHOOSE i \in seps : \A j \in seps : j <= i
      dots   == {i \in DOMAIN p : p[i] = "."}
      dotIdx == IF dots = {} THEN 0 ELSE CHOOSE i \in dots : \A j \in dots : j <= i
  IN  IF dotIdx > sepIdx /\ \E k \in (sepIdx + 1)..(dotIdx - 1) : p[k] # "."
      THEN SubSeq(p, dotIdx, Len(p))
      ELSE <<>>

\* ------------------------------------------------------------------------
\* Program constants
\* ------------------------------------------------------------------------

\* The members of DEFAULT_BINARY_EXTENSIONS over the model's alphabet.
DEFAULT_BINARY_EXTENSIONS == { <<".", "a">>, <<".", "o">> }

\* The members of DEFAULT_IGNORE_DIRS over the model's alphabet.
DEFAULT_IGNORE_DIRS == { <<"o", "u", "t">> }

\* f_sample.read(1024): the sample is at most this many bytes.
SAMPLE_BYTES == 1024

\* ------------------------------------------------------------------------
\* Pattern compiler: fnmatch.translate, re.compile, pattern.search
\* ------------------------------------------------------------------------

\* fnmatch.translate on one glob character: `*` becomes `.*`, `?` becomes `.`,
\* any other character is escaped and stands for itself.  (Bracket classes
\* are outside the model's pattern alphabet.)
translate_char(c) ==
  IF c = "*" THEN [op |-> "star", ch |-> "*"]
  ELSE IF c = "?" THEN [op |-> "any", ch |-> "?"]
  ELSE [op |-> "lit", ch |-> c]

\* fnmatch.translate(p_str): the regex (?s:...)\Z as its sequence of atoms; the
\* closing \Z is implicit in re_match_to_end.
translate(p_str) == [i \in DOMAIN p_str |-> translate_char(p_str[i])]

RECURSIVE re_match_to_end(_, _)
\* The regex atoms match all of s, up to the \Z that ends a translated glob.
re_match_to_end(atoms, s) ==
  IF atoms = <<>> THEN s = <<>>
  ELSE LET a == Head(atoms) IN
       IF a.op = "star"
       THEN \E k \in 0..Len(s) : re_match_to_end(Tail(atoms), SubSeq(s, k + 1, Len(s)))
       ELSE /\ s # <<>>
            /\ (a.op = "lit" => Head(s) = a.ch)
            /\ re_match_to_end(Tail(atoms), Tail(s))

\* pattern.search(s): the regex matches starting at some position of s.
search(pattern, s) ==
  \E i \in 1..(Len(s) + 1) : re_match_to_end(pattern, SubSeq(s, i, Len(s)))

\* Lines 194-212: the compiled list of a list of globs.
compile_patterns(patterns) == [i \in DOMAIN patterns |-> translate(patterns[i])]

\* ------------------------------------------------------------------------
\* File filter
\* ------------------------------------------------------------------------

\* bytes.count(b'\x00') of a sample, a sequence of byte values.
count_null(file_content_sample) ==
  Cardinality({i \in DOMAIN file_content_sample : file_content_sample[i] = 0})

\* is_likely_binary_file: a known extension (lower-cased), or more than 10%
\* null bytes in the sample.
is_likely_binary_file(filepath, file_content_sample) ==
  IF lower(splitext_ext(filepath)) \in DEFAULT_BINARY_EXTENSIONS THEN TRUE
  ELSE IF count_null(file_content_sample) * 10 > Len(file_content_sample) THEN TRUE
  ELSE FALSE

\* any(pattern.search(path) for pattern in regexes)
any_search(regexes, path) == \E i \in DOMAIN regexes : search(regexes[i], path)

\* A faulty variant of filter_reason: the include patterns are consulted before the
\* exclude patterns, and a matching include pattern accepts the file.
filter_reason_include_first(filepath_relative_to_repo, include_regexes, exclude_regexes, ignore_dirs_set, file_content_sample) ==
  IF Range(split(filepath_relative_to_repo, sep)) \cap ignore_dirs_set # {}
  THEN "ignored-dir"
  ELSE IF any_search(include_regexes, filepath_relative_to_repo)
  THEN "accepted"
  ELSE IF any_search(exclude_regexes, filepath_relative_to_repo)
  THEN "excluded"
  ELSE IF include_regexes # <<>>
  THEN "not-included"
  ELSE IF file_content_sample # <<>>
          /\ is_likely_binary_file(filepath_relative_to_repo, file_content_sample)
  THEN "binary"
  ELSE "accepted"

\* should_process_file with is_binary_check=True, by the return it takes: the
\* four `return False` (lines 73, 81, 93, 122) and the final `return True`.
filter_reason(filepath_relative_to_repo, include_regexes, exclude_regexes, ignore_dirs_set, file_content_sample) ==
  IF Range(split(filepath_relative_to_repo, sep)) \cap ignore_dirs_set # {}
  THEN "ignored-dir"
  ELSE IF any_search(exclude_regexes, filepath_relative_to_repo)
  THEN "excluded"
  ELSE IF include_regexes # <<>> /\ ~any_search(include_regexes, filepath_relative_to_repo)
  THEN "not-included"
  ELSE IF /\ file_content_sample # <<>>
          /\ is_likely_binary_file(filepath_relative_to_repo, file_content_sample)
          /\ ~(include_regexes # <<>> /\ any_search(include_regexes, filepath_relative_to_repo))
  THEN "binary"
  ELSE "accepted"

\* should_process_file: True exactly on the final return.
should_process_file(filepath_relative_to_repo, include_regexes, exclude_regexes, ignore_dirs_set, file_content_sample) ==
  filter_reason(filepath_relative_to_repo, include_regexes, exclude_regexes,
                ignore_dirs_set, file_content_sample) = "accepted"

\* ------------------------------------------------------------------------
\* Tree renderer
\* ------------------------------------------------------------------------

\* A dict of the nested structure is the sequence of its entries in insertion
\* order (Python dicts keep it).  An entry is [name, isdir, items]: a file
\* (value None) has isdir = FALSE, a directory holds its own dict in items.
FileEntry(name) == [name |-> name, isdir |-> FALSE, items |-> <<>>]
DirEntry(name, items) == [name |-> name, isdir |-> TRUE, items |-> items]

\* A faulty variant of key_index: no key is ever found, as if every directory part
\* were assigned a fresh dict instead of going through setdefault.
key_index_absent(level, part) == 0

\* The position of key `part` in a dict, 0 when absent.
key_index(level, part) ==
  IF \E i \in DOMAIN level : level[i].name = part
  THEN CHOOSE i \in DOMAIN level : level[i].name = part
  ELSE 0

\* current_level[part] = None: a present key keeps its place, a new one is
\* added last.
set_file(level, part) ==
  LET k == key_index(level, part)
  IN  IF k = 0 THEN Append(level, FileEntry(part))
      ELSE [level EXCEPT ![k] = FileEntry(part)]

RECURSIVE insert_path(_, _)
\* Lines 144-153 for one path, from the dict `level` on: the dict afterwards,
\* and whether the conflict warning was printed.  On a conflict the code
\* rebinds current_level to a fresh dict that no parent refers to, so the rest
\* of the path is written into that dict and `level` stays as it was.
insert_path(level, parts) ==
  LET part == Head(parts)
      k    == key_index(level, part)
  IN  IF Len(parts) = 1
      THEN [level |-> set_file(level, part), warned |-> FALSE]
      ELSE IF k = 0
      THEN LET sub == insert_path(<<>>, Tail(parts))
           IN  [level |-> Append(level, DirEntry(part, sub.level)), warned |-> sub.warned]
      ELSE IF ~level[k].isdir
      THEN [level |-> level, warned |-> TRUE]
      ELSE LET sub == insert_path(level[k].items, Tail(parts))
           IN  [level |-> [level EXCEPT ![k] = DirEntry(part, sub.level)],
                warned |-> sub.warned]

RECURSIVE sorted(_)
\* sorted(list(set(filepaths))): the distinct strings in code-point order.
sorted(S) ==
  IF S = {} THEN <<>>
  ELSE LET m == CHOOSE x \in S : \A y \in S \ {x} : StrLess(x, y)
       IN  <<m>> \o sorted(S \ {m})

\* A faulty variant of path_order: the paths in the order given, duplicates included.
path_order_as_given(filepaths) == filepaths

\* Line 141: the order in which the paths are inserted.
path_order(filepaths) == sorted(Range(filepaths))

RECURSIVE build_structure(_, _)
\* Lines 140-153: root_structure after inserting the paths in order.
build_structure(root_structure, paths) ==
  IF paths = <<>> THEN [level |-> root_structure, warned |-> FALSE]
  ELSE LET one  == insert_path(root_structure, split(Head(paths), sep))
           rest == build_structure(one.level, Tail(paths))
       IN  [level |-> rest.level, warned |-> one.warned \/ rest.warned]

RECURSIVE sort_by_lower(_)
\* sorted(node.items(), key=lambda item: item[0].lower()): a stable sort, so
\* entries whose lower-cased names are equal keep their insertion order.
sort_by_lower(items) ==
  IF items = <<>> THEN <<>>
  ELSE LET k == CHOOSE i \in DOMAIN items :
                  /\ \A j \in DOMAIN items : ~StrLess(lower(items[j].name), lower(items[i].name))
                  /\ \A j \in 1..(i - 1) : lower(items[j].name) # lower(items[i].name)
       IN  <<items[k]>> \o sort_by_lower(SubSeq(items, 1, k - 1) \o SubSeq(items, k + 1, Len(items)))

\* The connectors and prefix extensions of the rendering (the box-drawing
\* strings of lines 163 and 167, in ASCII).
TEE == "|-- "
ELL == "+-- "
BAR == "|   "
GAP == "    "

RECURSIVE build_lines(_, _, _)
\* _build_tree_lines_recursive, over the already sorted entries from the i-th
\* on: one line per entry, followed by the lines of its subtree.
build_lines(items, i, current_prefix) ==
  IF i > Len(items) THEN <<>>
  ELSE LET is_last == (i = Len(items))
           line    == [prefix |-> current_prefix,
                       connector |-> IF is_last THEN ELL ELSE TEE,
                       name |-> items[i].name]
           below   == IF items[i].isdir
                      THEN build_lines(sort_by_lower(items[i].items), 1,
                                       Append(current_prefix, IF is_last THEN GAP ELSE BAR))
                      ELSE <<>>
       IN  <<line>> \o below \o build_lines(items, i + 1, current_prefix)

\* Lines 155-169 on a dict.
build_tree_lines_recursive(node, current_prefix) ==
  build_lines(sort_by_lower(node), 1, current_prefix)

\* A line of the text that is not a tree entry.
TextLine(what, name) == [prefix |-> <<>>, connector |-> what, name |-> name]

\* generate_tree_display: the text as its sequence of lines, the structure
\* it was rendered from, and whether a conflict warning went to stderr.
generate_tree_display(filepaths, repo_name) ==
  IF filepaths = <<>>
  THEN [text |-> << TextLine("Repository Structure", repo_name),
                    TextLine("(No files included)", <<>>),
                    TextLine("---", <<>>) >>,
        structure |-> <<>>, warned |-> FALSE]
  ELSE LET built == build_structure(<<>>, path_order(filepaths))
       IN  [text |-> << TextLine("Repository Structure", repo_name) >>
                     \o build_tree_lines_recursive(built.level, <<>>)
                     \o << TextLine("---", <<>>) >>,
            structure |-> built.level, warned |-> built.warned]

\* ------------------------------------------------------------------------
\* Bounds and input pools
\* ------------------------------------------------------------------------

\* The most files a repository of the model holds.
MaxFiles == 2

\* The most patterns in an include or exclude list given to the filter.
MaxPatterns == 1

\* The most paths in a list given to the tree renderer.
MaxPaths == 2

\* Names, as strings.
n_a   == <<"a">>
n_A   == <<"A">>
n_d   == <<"d">>
n_bo  == <<"b", ".", "o">>
n_BO  == <<"B", ".", "O">>
n_out == <<"o", "u", "t">>

\* The files a repository may hold, each as its chain of names below the root.
FilePool ==
  { <<n_a>>, <<n_A>>, <<n_bo>>, <<n_out>>, <<n_d, n_a>>, <<n_d, n_A>>,
    <<n_d, n_out, n_a>>, <<n_out, n_a>> }

\* p is a proper prefix of q.
IsProperPrefix(p, q) == Len(p) < Len(q) /\ SubSeq(q, 1, Len(p)) = p

\* A set of files a file system can hold: no file is also a directory.
IsFileSystem(S) == \A p \in S, q \in S : ~IsProperPrefix(p, q)

RepoPool == {S \in SUBSET FilePool : Cardinality(S) <= MaxFiles /\ IsFileSystem(S)}

\* The leading bytes a file may hold: empty, text, a null byte, two bytes.
ContentPool == { <<>>, <<65>>, <<0>>, <<65, 65>> }

\* Glob patterns, as strings.
g_star_o == <<"*", ".", "o">>
g_a      == <<"a">>
g_d_star == <<"d", "/", "*">>
g_q      == <<"?">>
g_bstar  == <<"b", "*">>

\* The permutations of a finite set, as sequences.
Perms(S) == {q \in [1..Cardinality(S) -> S] : Range(q) = S}

\* ------------------------------------------------------------------------
\* ingest_repo
\* ------------------------------------------------------------------------

VARIABLES
  pc,                        \* where ingest_repo is: start, compile, walk, done
  repo,                      \* the files below repo_path
  root_is_dir,               \* os.path.isdir(repo_path)
  compile_raises,            \* re.compile raises re.error on some pattern
  output_file,               \* whether -o names a file
  max_file_size_bytes,
  include_patterns,
  exclude_patterns,
  compiled_include_regexes,
  compiled_exclude_regexes,
  todo,                      \* the directories os.walk has still to yield
  root,                      \* the directory of the current os.walk step
  files,                     \* the names of `files` the inner loop has not reached
  file,                      \* the inner loop's locals after its last iteration
  all_content_parts,
  included_relative_paths,
  visit_log,                 \* the relative paths in the order the loop met them
  io_log,                    \* the directories listed, the files stat'ed or opened
  tree_header,               \* the result of generate_tree_display
  primary_output,            \* what was written to stdout or the output file
  stderr_error,              \* the "Error" message printed, if any
  exit_status,               \* the process's exit status, -1 while it runs
  \* the filter on its own
  sp_done, sp_path, sp_include, sp_exclude, sp_sample, sp_reason,
  \* the tree renderer on its own
  gt_done, gt_filepaths, gt_result

ingest_vars ==
  << pc, repo, root_is_dir, compile_raises, output_file, max_file_size_bytes,
     include_patterns, exclude_patterns, compiled_include_regexes,
     compiled_exclude_regexes, todo, root, files, file, all_content_parts,
     included_relative_paths, visit_log, io_log, tree_header, primary_output,
     stderr_error, exit_status >>

filter_vars == << sp_done, sp_path, sp_include, sp_exclude, sp_sample, sp_reason >>

tree_vars == << gt_done, gt_filepaths, gt_result >>

vars == << ingest_vars, filter_vars, tree_vars >>

MAX_FILE_SIZE_DEFAULT_MB == 5
BYTES_IN_MB == 1024 * 1024

\* The include and exclude lists a run is given.
IncludeChoices == { <<>>, <<g_star_o>>, <<g_a>> }
ExcludeChoices == { <<>>, <<g_d_star>> }

\* max_file_size_mb * BYTES_IN_MB for the default and for --max-file-size
\* set to one byte's worth.
MaxSizeChoices == { MAX_FILE_SIZE_DEFAULT_MB * BYTES_IN_MB, 1 }

\* os.path.basename(abs_repo_path)
repo_base_name == <<"r">>

NoFile == [relative_filepath |-> <<>>, file_size |-> -1, sample |-> <<>>, outcome |-> "none"]
NoTree == [text |-> <<>>, structure |-> <<>>, warned |-> FALSE]

IngestIdle ==
  /\ pc = "done" /\ repo = {} /\ root_is_dir = TRUE /\ compile_raises = FALSE
  /\ output_file = FALSE /\ max_file_size_bytes = 1
  /\ include_patterns = <<>> /\ exclude_patterns = <<>>
  /\ compiled_include_regexes = <<>> /\ compiled_exclude_regexes = <<>>
  /\ todo = <<>> /\ root = <<>> /\ files = <<>> /\ file = NoFile
  /\ all_content_parts = <<>> /\ included_relative_paths = <<>>
  /\ visit_log = <<>> /\ io_log = {} /\ tree_header = NoTree
  /\ primary_output = <<>> /\ stderr_error = "none" /\ exit_status = -1

FilterIdle ==
  /\ sp_done = TRUE /\ sp_path = <<>> /\ sp_include = <<>> /\ sp_exclude = <<>>
  /\ sp_sample = <<>> /\ sp_reason = "none"

TreeIdle == gt_done = TRUE /\ gt_filepaths = <<>> /\ gt_result = NoTree

\* The state on entry to ingest_repo: the arguments and the file system.
Init ==
  /\ pc = "start"
  /\ repo \in RepoPool
  /\ root_is_dir \in BOOLEAN
  /\ compile_raises \in BOOLEAN
  /\ output_file \in BOOLEAN
  /\ max_file_size_bytes \in MaxSizeChoices
  /\ include_patterns \in IncludeChoices
  /\ exclude_patterns \in ExcludeChoices
  /\ (~root_is_dir => repo = {})
  /\ (compile_raises => include_patterns # <<>> \/ exclude_patterns # <<>>)
  /\ compiled_include_regexes = <<>> /\ compiled_exclude_regexes = <<>>
  /\ todo = <<>> /\ root = <<>> /\ files = <<>> /\ file = NoFile
  /\ all_content_parts = <<>> /\ included_relative_paths = <<>>
  /\ visit_log = <<>> /\ io_log = {} /\ tree_header = NoTree
  /\ primary_output = <<>> /\ stderr_error = "none" /\ exit_status = -1
  /\ FilterIdle /\ TreeIdle

\* Lines 184-186: a repo_path that is no directory prints the error and
\* returns; main then returns too and the interpreter exits with status 0.
CheckRoot ==
  /\ pc = "start"
  /\ IF ~root_is_dir
     THEN /\ stderr_error' = "bad-root"
          /\ exit_status' = 0
          /\ pc' = "done"
     ELSE /\ pc' = "compile"
          /\ UNCHANGED << stderr_error, exit_status >>
  /\ UNCHANGED << repo, root_is_dir, compile_raises, output_file, max_file_size_bytes,
                  include_patterns, exclude_patterns, compiled_include_regexes,
                  compiled_exclude_regexes, todo, root, files, file, all_content_parts,
                  included_relative_paths, visit_log, io_log, tree_header, primary_output >>
  /\ UNCHANGED << filter_vars, tree_vars >>

\* Lines 194-217: both pattern lists are compiled; re.error ends the process
\* with sys.exit(1).  Then the accumulators are set up and os.walk starts at
\* the root.
CompilePatterns ==
  /\ pc = "compile"
  /\ IF compile_raises
     THEN /\ stderr_error' = "bad-pattern"
          /\ exit_status' = 1
          /\ pc' = "done"
          /\ UNCHANGED << compiled_include_regexes, compiled_exclude_regexes, todo >>
     ELSE /\ compiled_include_regexes' = compile_patterns(include_patterns)
          /\ compiled_exclude_regexes' = compile_patterns(exclude_patterns)
          /\ todo' = << <<>> >>
          /\ pc' = "walk"
          /\ UNCHANGED << stderr_error, exit_status >>
  /\ UNCHANGED << repo, root_is_dir, compile_raises, output_file, max_file_size_bytes,
                  include_patterns, exclude_patterns, root, files, file, all_content_parts,
                  included_relative_paths, visit_log, io_log, tree_header, primary_output >>
  /\ UNCHANGED << filter_vars, tree_vars >>

\* The names of the sub-directories of directory d (those that hold a file).
subdirs(d) == { p[Len(d) + 1] : p \in {q \in repo : IsProperPrefix(d, q) /\ Len(q) > Len(d) + 1} }

\* The names of the files of directory d.
filenames(d) == { p[Len(d) + 1] : p \in {q \in repo : IsProperPrefix(d, q) /\ Len(q) = Len(d) + 1} }

\* A faulty variant of prune_dirs: nothing is removed from dirs.
prune_dirs_nothing(dirs, current_ignore_dirs) == dirs

\* Line 220: dirs[:] = [d for d in dirs if d not in current_ignore_dirs]
prune_dirs(dirs, current_ignore_dirs) ==
  SelectSeq(dirs, LAMBDA d : d \notin current_ignore_dirs)

\* Lines 219-220: os.walk lists the next directory (in whatever order the file
\* system gives its entries) and yields it; the loop body prunes dirs, which
\* are the directories os.walk goes into, first to last, once the files of
\* this one are done.
WalkDir ==
  /\ pc = "walk" /\ files = <<>> /\ todo # <<>>
  /\ LET top == Head(todo) IN
     \E dirs \in Perms(subdirs(top)), fs \in Perms(filenames(top)) :
        LET kept == prune_dirs(dirs, DEFAULT_IGNORE_DIRS) IN
        /\ root' = top
        /\ files' = fs
        /\ todo' = [i \in DOMAIN kept |-> top \o <<kept[i]>>] \o Tail(todo)
        /\ io_log' = io_log \cup {[op |-> "scandir", path |-> top]}
  /\ UNCHANGED << pc, repo, root_is_dir, compile_raises, output_file, max_file_size_bytes,
                  include_patterns, exclude_patterns, compiled_include_regexes,
                  compiled_exclude_regexes, file, all_content_parts,
                  included_relative_paths, visit_log, tree_header, primary_output,
                  stderr_error, exit_status >>
  /\ UNCHANGED << filter_vars, tree_vars >>

\* f_sample.read(1024)
read_sample(content) ==
  SubSeq(content, 1, IF Len(content) < SAMPLE_BYTES THEN Len(content) ELSE SAMPLE_BYTES)

\* Lines 226-259 for one file: how the iteration ends.  getsize, the sample
\* read and the full read each may raise; the file is too large when its size
\* exceeds the maximum; otherwise should_process_file decides.
file_outcome(relative_filepath, content, getsize_raises, sample_raises, read_raises) ==
  IF getsize_raises THEN "size-error"
  ELSE IF Len(content) > max_file_size_bytes THEN "too-large"
  ELSE IF sample_raises THEN "sample-error"
  ELSE LET reason == filter_reason(relative_filepath, compiled_include_regexes,
                                   compiled_exclude_regexes, DEFAULT_IGNORE_DIRS,
                                   read_sample(content))
       IN  IF reason # "accepted" THEN reason
           ELSE IF read_raises THEN "read-error"
           ELSE "included"

\* A faulty variant of is_recorded: the path is recorded before the file is read, so
\* a file whose read fails is recorded too.
is_recorded_before_read(outcome) == outcome \in {"included", "read-error"}

\* Lines 252-259: the record and the path are appended only once the full read
\* has succeeded.
is_recorded(outcome) == outcome = "included"

\* A faulty variant of add_content_part: the record goes to the front of the body.
add_content_part_front(parts, relative_filepath) ==
  << [relative_filepath |-> relative_filepath] >> \o parts

\* Line 255: all_content_parts.append(f"--- {relative_filepath} ---\n{content}\n");
\* a record is kept as the path of its header line.
add_content_part(parts, relative_filepath) ==
  Append(parts, [relative_filepath |-> relative_filepath])

\* Lines 222-259: one iteration of the inner loop.
ProcessFile ==
  /\ pc = "walk" /\ files # <<>>
  /\ LET full_filepath     == root \o <<Head(files)>>
         relative_filepath == join(full_filepath, sep)
     IN  \E content \in ContentPool, getsize_raises \in BOOLEAN,
            sample_raises \in BOOLEAN, read_raises \in BOOLEAN :
           LET outcome == file_outcome(relative_filepath, content, getsize_raises,
                                       sample_raises, read_raises)
               sized   == outcome # "size-error"
               sampled == outcome \notin {"size-error", "too-large", "sample-error"}
           IN  /\ file' = [relative_filepath |-> relative_filepath,
                           file_size |-> IF sized THEN Len(content) ELSE -1,
                           sample |-> IF sampled THEN read_sample(content) ELSE <<>>,
                           outcome |-> outcome]
               /\ IF is_recorded(outcome)
                  THEN /\ all_content_parts' = add_content_part(all_content_parts, relative_filepath)
                       /\ included_relative_paths' = Append(included_relative_paths, relative_filepath)
                  ELSE UNCHANGED << all_content_parts, included_relative_paths >>
               /\ visit_log' = Append(visit_log, relative_filepath)
               /\ io_log' = io_log \cup {[op |-> "getsize", path |-> full_filepath]}
                                   \cup (IF outcome \in {"size-error", "too-large"} THEN {}
                                         ELSE {[op |-> "open", path |-> full_filepath]})
  /\ files' = Tail(files)
  /\ UNCHANGED << pc, repo, root_is_dir, compile_raises, output_file, max_file_size_bytes,
                  include_patterns, exclude_patterns, compiled_include_regexes,
                  compiled_exclude_regexes, todo, root, tree_header, primary_output,
                  stderr_error, exit_status >>
  /\ UNCHANGED << filter_vars, tree_vars >>

\* Lines 261-271: the tree is rendered from the recorded paths and put before
\* the body; the text goes to the output file or to stdout.  A failed write
\* prints an error and ingest_repo returns: the exit status is 0 either way.
WriteOutput ==
  /\ pc = "walk" /\ files = <<>> /\ todo = <<>>
  /\ tree_header' = generate_tree_display(included_relative_paths, repo_base_name)
  /\ \E write_raises \in BOOLEAN :
        IF output_file /\ write_raises
        THEN /\ stderr_error' = "write-error"
             /\ UNCHANGED primary_output
        ELSE /\ primary_output' = Append(primary_output,
                                         [tree |-> tree_header'.text, body |-> all_content_parts])
             /\ UNCHANGED stderr_error
  /\ exit_status' = 0
  /\ pc' = "done"
  /\ UNCHANGED << repo, root_is_dir, compile_raises, output_file, max_file_size_bytes,
                  include_patterns, exclude_patterns, compiled_include_regexes,
                  compiled_exclude_regexes, todo, root, files, file, all_content_parts,
                  included_relative_paths, visit_log, io_log >>
  /\ UNCHANGED << filter_vars, tree_vars >>

Next == CheckRoot \/ CompilePatterns \/ WalkDir \/ ProcessFile \/ WriteOutput

Spec == Init /\ [][Next]_vars

\* ------------------------------------------------------------------------
\* The filter on its own: should_process_file on arguments from bounded sets
\* ------------------------------------------------------------------------

\* The most names in a path given to the filter or to the tree renderer.
MaxDepth == 2

\* The sequences of 1 to n elements of S.
SeqsUpTo(S, n) == UNION {[1..k -> S] : k \in 1..n}

\* Relative paths for the filter.
FilterPathPool == {join(p, sep) : p \in SeqsUpTo({n_a, n_d, n_bo, n_BO, n_out}, MaxDepth)}

\* Glob patterns for the filter.
PatternPool == { g_star_o, g_a, g_d_star, g_q, g_bstar }

PatternLists == {<<>>} \cup SeqsUpTo(PatternPool, MaxPatterns)

\* Samples: empty, text, a null byte, and eleven bytes of which one is null.
SamplePool == { <<>>, <<65>>, <<0>>, <<0, 65, 65, 65, 65, 65, 65, 65, 65, 65, 65>> }

InitFilter ==
  /\ sp_done = FALSE
  /\ sp_path \in FilterPathPool
  /\ sp_include \in PatternLists
  /\ sp_exclude \in PatternLists
  /\ sp_sample \in SamplePool
  /\ sp_reason = "none"
  /\ IngestIdle /\ TreeIdle

\* should_process_file(sp_path, compiled includes, compiled excludes,
\* DEFAULT_IGNORE_DIRS, is_binary_check=True, sp_sample), as ingest_repo calls it.
Decide ==
  /\ ~sp_done
  /\ sp_done' = TRUE
  /\ sp_reason' = filter_reason(sp_path, compile_patterns(sp_include),
                                compile_patterns(sp_exclude), DEFAULT_IGNORE_DIRS, sp_sample)
  /\ UNCHANGED << sp_path, sp_include, sp_exclude, sp_sample >>
  /\ UNCHANGED << ingest_vars, tree_vars >>

NextFilter == Decide

SpecFilter == InitFilter /\ [][NextFilter]_vars

\* ------------------------------------------------------------------------
\* The tree renderer on its own: generate_tree_display on lists of paths
\* ------------------------------------------------------------------------

\* Relative paths for the renderer; a name may be a file in one path and a
\* directory in another.
TreePathPool == {join(p, sep) : p \in SeqsUpTo({n_a, n_A, n_d}, MaxDepth)}

InitTree ==
  /\ gt_done = FALSE
  /\ gt_filepaths \in {<<>>} \cup SeqsUpTo(TreePathPool, MaxPaths)
  /\ gt_result = NoTree
  /\ IngestIdle /\ FilterIdle

\* generate_tree_display(gt_filepaths, repo_name)
Render ==
  /\ ~gt_done
  /\ gt_done' = TRUE
  /\ gt_result' = generate_tree_display(gt_filepaths, repo_base_name)
  /\ UNCHANGED gt_filepaths
  /\ UNCHANGED << ingest_vars, filter_vars >>

NextTree == Render

SpecTree == InitTree /\ [][NextTree]_vars

\* ------------------------------------------------------------------------
\* Properties
\* ------------------------------------------------------------------------

RECURSIVE glob_matches(_, _)
\* Shell-glob matching of a whole string: `*` stands for any run of
\* characters (path separators included), `?` for exactly one, any other
\* character for itself; the pattern has to cover s from first to last.
glob_matches(p, s) ==
  IF p = <<>> THEN s = <<>>
  ELSE IF Head(p) = "*"
  THEN \E k \in 0..Len(s) : glob_matches(Tail(p), SubSeq(s, k + 1, Len(s)))
  ELSE /\ s # <<>>
       /\ (Head(p) = "?" \/ Head(p) = Head(s))
       /\ glob_matches(Tail(p), Tail(s))

\* Some glob of the list matches the whole path.
any_glob(globs, path) == \E i \in DOMAIN globs : glob_matches(globs[i], path)

\* Some glob of the list matches the path as the filter's compiled pattern does.
any_compiled(globs, path) == any_search(compile_patterns(globs), path)

RECURSIVE nodes_of(_, _)
\* The nodes of a nested structure, each with its chain of names from the top.
nodes_of(level, prefix) ==
  IF level = <<>> THEN <<>>
  ELSE LET e == Head(level)
       IN  << [path |-> Append(prefix, e.name), isdir |-> e.isdir] >>
           \o nodes_of(e.items, Append(prefix, e.name))
           \o nodes_of(Tail(level), prefix)

\* The lines of a rendered text that show a tree entry.
entry_lines(text) == SelectSeq(text, LAMBDA l : l.connector \in {TEE, ELL})

\* The non-empty proper prefixes of the chains of names in P.
dir_prefixes(P) == UNION { {SubSeq(q, 1, k) : k \in 1..(Len(q) - 1)} : q \in P }

\* The outcomes of an iteration that are per-file failures.
Failures == {"size-error", "too-large", "sample-error", "read-error"}

\* The run got past the root check and the pattern compilation and finished.
Finished == pc = "done" /\ stderr_error \notin {"bad-root", "bad-pattern"}

\* C1: exclude precedence.  Whenever some exclude pattern matches the path (as
\* a whole-string glob, or as the filter's compiled pattern matches), the
\* filter rejects the path, whatever the include patterns and the sample are.
C1_ExcludePrecedence ==
  (sp_done /\ (any_glob(sp_exclude, sp_path) \/ any_compiled(sp_exclude, sp_path)))
    => sp_reason # "accepted"

\* C1's case: a path free of ignored names that an include pattern and an
\* exclude pattern both match as whole-string globs, rejected as excluded.
C1_Witness ==
  /\ sp_done
  /\ any_glob(sp_exclude, sp_path)
  /\ any_glob(sp_include, sp_path)
  /\ sp_reason = "excluded"

\* C2: binary rejection by extension.  A path that passes the ignored-name,
\* exclude and include stages and has a binary extension is accepted if and
\* only if an include pattern matches it, for every sample (the empty one too).
C2_BinaryByExtension ==
  (/\ sp_done
   /\ sp_reason \notin {"ignored-dir", "excluded", "not-included"}
   /\ lower(splitext_ext(sp_path)) \in DEFAULT_BINARY_EXTENSIONS)
    => (sp_reason = "accepted" <=> any_compiled(sp_include, sp_path))

\* C3: matching is whole-string and anchored.  The filter treats an exclude
\* pattern as matching (rejects as excluded) only if one of the globs matches
\* the whole path, and lets a path through a non-empty include list only if
\* one of its globs matches the whole path.
C3_WholeStringMatch ==
  /\ (sp_done /\ sp_reason = "excluded") => any_glob(sp_exclude, sp_path)
  /\ (sp_done /\ sp_include # <<>> /\ sp_reason \in {"binary", "accepted"})
       => any_glob(sp_include, sp_path)

\* C4: ignored-directory pruning.  No recorded path has a name of the ignored
\* set among its segments, no directory with such a name on its chain is ever
\* listed, and no file below such a directory is ever stat'ed or opened.
C4_IgnoredDirsPruned ==
  /\ \A q \in Range(included_relative_paths) :
        Range(split(q, sep)) \cap DEFAULT_IGNORE_DIRS = {}
  /\ \A t \in io_log :
        LET dirs == IF t.op = "scandir" THEN t.path ELSE SubSeq(t.path, 1, Len(t.path) - 1)
        IN  Range(dirs) \cap DEFAULT_IGNORE_DIRS = {}

\* C4's case: a finished run over a repository with a file below an ignored
\* directory and another file that was recorded.
C4_Witness ==
  /\ Finished
  /\ \E q \in repo : Range(SubSeq(q, 1, Len(q) - 1)) \cap DEFAULT_IGNORE_DIRS # {}
  /\ included_relative_paths # <<>>

\* C5: the exit status reflects fatal errors.  A finished process has status
\* zero only if it met no bad root, no bad pattern and no write error.
C5_ExitStatus ==
  pc = "done" => (exit_status = 0 <=> stderr_error = "none")

\* The files and directories the walk is to reach: those with no ignored
\* name among the directories above them (or as their own name, for a
\* directory).
walk_files == {q \in repo : Range(SubSeq(q, 1, Len(q) - 1)) \cap DEFAULT_IGNORE_DIRS = {}}
walk_dirs  == {d \in dir_prefixes(repo) \cup {<<>>} : Range(d) \cap DEFAULT_IGNORE_DIRS = {}}

\* What is left of the walk: the files not met yet and the directories not
\* listed yet.
Remaining ==
  (Cardinality(walk_files) - Len(visit_log))
  + (Cardinality(walk_dirs) - Cardinality({t \in io_log : t.op = "scandir"}))

\* C6: per-file failures are absorbed locally.  An iteration of the inner loop
\* handles exactly the next file and leaves the walk going; one that fails
\* (size unreadable, size above the maximum, sample or content unreadable)
\* records nothing; one that does not fail records the file exactly when the
\* filter accepts its path and sample, whatever happened to the files before;
\* a failed file is in neither list and has no node in the tree; and every
\* step of the walk, a failing one included, either brings the walk nearer
\* its end or is the output stage.
C6_FailuresAbsorbed ==
  [][ /\ (pc = "walk" /\ files # <<>>) =>
           LET rel == join(root \o <<Head(files)>>, sep) IN
           /\ file'.relative_filepath = rel
           /\ pc' = "walk" /\ files' = Tail(files) /\ todo' = todo
           /\ (file'.file_size > max_file_size_bytes => file'.outcome = "too-large")
           /\ (file'.outcome \in Failures =>
                 /\ included_relative_paths' = included_relative_paths
                 /\ all_content_parts' = all_content_parts)
           /\ (file'.outcome \notin Failures =>
                 IF should_process_file(rel, compiled_include_regexes, compiled_exclude_regexes,
                                        DEFAULT_IGNORE_DIRS, file'.sample)
                 THEN /\ included_relative_paths' = Append(included_relative_paths, rel)
                      /\ Len(all_content_parts') = Len(all_content_parts) + 1
                 ELSE /\ included_relative_paths' = included_relative_paths
                      /\ all_content_parts' = all_content_parts)
      /\ (file'.outcome \in Failures =>
           /\ file'.relative_filepath \notin Range(included_relative_paths')
           /\ \A i \in DOMAIN all_content_parts' :
                 all_content_parts'[i].relative_filepath # file'.relative_filepath
           /\ \A n \in Range(nodes_of(tree_header'.structure, <<>>)) :
                 n.path # split(file'.relative_filepath, sep))
      /\ (pc = "walk" =>
           \/ pc' = "walk" /\ Remaining' < Remaining
           \/ pc' = "done" /\ Remaining = 0 /\ exit_status' = 0
              /\ (stderr_error' = "none" => primary_output' # <<>>)) ]_vars

\* C6's case: the run finished and wrote its output with a file recorded,
\* after the last file it met had failed.
C6_Witness ==
  /\ Finished
  /\ primary_output # <<>>
  /\ file.outcome \in Failures
  /\ included_relative_paths # <<>>

\* A sequence of strings is in sorted order.
IsSorted(q) == \A i \in 1..(Len(q) - 1) : ~StrLess(q[i + 1], q[i])

\* C7: body order and tree/body agreement.  At every moment the body holds
\* one record per recorded path, the i-th record is the i-th recorded path's,
\* and the recorded paths are in the order the traversal met them; the text
\* written carries the body in that order, and the paths with a record are
\* exactly the leaves of the rendered tree.
C7_BodyOrder ==
  /\ Len(all_content_parts) = Len(included_relative_paths)
  /\ \A i \in DOMAIN all_content_parts :
        all_content_parts[i].relative_filepath = included_relative_paths[i]
  /\ included_relative_paths =
        SelectSeq(visit_log, LAMBDA q : q \in Range(included_relative_paths))
  /\ \A i \in DOMAIN primary_output :
        /\ primary_output[i].body = all_content_parts
        /\ primary_output[i].tree = tree_header.text
  /\ Finished =>
        {r.relative_filepath : r \in Range(all_content_parts)}
          = {join(n.path, sep) : n \in {m \in Range(nodes_of(tree_header.structure, <<>>)) : ~m.isdir}}

\* C7's case: written output whose body has two records that are not in
\* sorted order.
C7_Witness ==
  /\ Finished
  /\ primary_output # <<>>
  /\ Len(all_content_parts) >= 2
  /\ ~IsSorted(included_relative_paths)

\* The lists of at most n paths with the same set of paths as L.
same_set_lists(L, n) == {M \in {<<>>} \cup SeqsUpTo(Range(L), n) : Range(M) = Range(L)}

\* C8: generate_tree_display depends on the set of paths only.  Every list
\* with the same set of paths as the one rendered, in any order and with
\* duplicates, renders to the same text.
C8_FunctionOfPathSet ==
  gt_done =>
    \A M \in same_set_lists(gt_filepaths, MaxPaths) :
       generate_tree_display(M, repo_base_name).text = gt_result.text

\* C8's case: a rendered list with two sibling names that differ only in
\* letter case, given with the lower-case one first.
C8_Witness ==
  /\ gt_done
  /\ Len(gt_filepaths) = 2
  /\ gt_filepaths[1] = n_a
  /\ gt_filepaths[2] = n_A
  /\ Len(entry_lines(gt_result.text)) = 2

\* C9: tree shape.  The structure built from the recorded paths of a run has
\* exactly one leaf per recorded path and exactly one directory node per
\* distinct directory prefix, and the text has exactly one line per node.
C9_TreeShape ==
  Finished =>
    LET nodes == nodes_of(tree_header.structure, <<>>)
        paths == {split(q, sep) : q \in Range(included_relative_paths)}
    IN  /\ \A i \in DOMAIN nodes, j \in DOMAIN nodes : nodes[i].path = nodes[j].path => i = j
        /\ {n.path : n \in {m \in Range(nodes) : ~m.isdir}} = paths
        /\ {n.path : n \in {m \in Range(nodes) : m.isdir}} = dir_prefixes(paths)
        /\ Len(entry_lines(tree_header.text)) = Len(nodes)
        /\ \A i \in DOMAIN nodes :
              entry_lines(tree_header.text)[i].name = nodes[i].path[Len(nodes[i].path)]

\* C9's case: a finished run that recorded two files of one directory.
C9_Witness ==
  /\ Finished
  /\ \E i \in DOMAIN included_relative_paths, j \in DOMAIN included_relative_paths :
        /\ i # j
        /\ Len(split(included_relative_paths[i], sep)) = 2
        /\ Len(split(included_relative_paths[j], sep)) = 2
        /\ Head(split(included_relative_paths[i], sep)) = Head(split(included_relative_paths[j], sep))

\* C10: path-conflict coercion.  When the list holds a path X and a path X/Y,
\* the renderer warns and the structure has X as a directory with Y below it.
C10_ConflictCoerced ==
  gt_done =>
    \A x \in Range(gt_filepaths), y \in Range(gt_filepaths) :
       (IsProperPrefix(split(x, sep), split(y, sep)) /\ Len(split(y, sep)) = Len(split(x, sep)) + 1)
         => /\ gt_result.warned
            /\ [path |-> split(x, sep), isdir |-> TRUE]
                 \in Range(nodes_of(gt_result.structure, <<>>))
            /\ \E n \in Range(nodes_of(gt_result.structure, <<>>)) : n.path = split(y, sep)

====
